---- MODULE Spec2Model ----
(***************************************************************************)
(* A model of src/app.py: the Streamlit page that transcribes an uploaded  *)
(* M4A file with Groq Whisper and translates the transcript with Gemini.   *)
(*                                                                         *)
(* One step of the model is one run of main(): Streamlit reruns the whole  *)
(* script after every user interaction, with the widget state the          *)
(* interaction produced.  The remote services, the file system and the     *)
(* clipboard are inputs of the run: each run draws their outcome from a    *)
(* small set.                                                              *)
(***************************************************************************)
EXTENDS Integers, Sequences, FiniteSets, TLC

\* ------------------------------------------------------------------ bounds
\* Longest text a remote service returns, in characters.
MaxLen == 1
\* Most staged files the model lets accumulate on disk.
MaxTmpFiles == 1
\* The user picks languages among the first MaxPick entries of LANGUAGES.
MaxPick == 3

\* ------------------------------------------------------- values and inputs
\* Python values held in st.session_state.
None == [type |-> "NoneType"]
PyStr(v) == [type |-> "str", value |-> v]

\* Truthiness of an optional string: `if st.session_state.transcription:`.
Truthy(v) == v # None /\ v.value # <<>>

\* Texts are sequences of characters, so that strip() is computed.
Whitespace == {" "}
Chars == Whitespace \cup {"a"}
Texts == UNION {[1..n -> Chars] : n \in 0..MaxLen}

\* The files the user has at hand; NoFile is file_uploader returning None.
NoFile == "None"
Files == {"one.m4a", "two.m4a"}

\* A widget that holds no state: never rendered, or dropped by Streamlit
\* because a run that completed did not render it.  A run that ends early
\* (st.stop(), an uncaught exception) leaves the widget state as it was.
NoValue == ""

Range(s) == {s[i] : i \in 1..Len(s)}

\* ---------------------------------------------------------------- constants
LANGUAGES ==
    [English |-> "en", Turkish |-> "tr", German |-> "de", French |-> "fr",
     Spanish |-> "es", Italian |-> "it", Dutch |-> "nl"]

\* list(LANGUAGES.keys()): the keys in insertion order.
LANGUAGES_keys ==
    <<"English", "Turkish", "German", "French", "Spanish", "Italian", "Dutch">>

PickedLanguages == {LANGUAGES_keys[i] : i \in 1..MaxPick}

SessionKeys == {"transcription", "translation", "transcription_language", "target_language"}

\* -------------------------------------------------------------------- state
VARIABLES
    GROQ_API_KEY,                   \* whether the last run found the credential set
    session_state,                  \* st.session_state: a mapping on the keys set so far
    transcription_language_select,  \* widget state of the source-language selectbox
    uploaded_file,                  \* widget state of the file uploader
    translation_language_select,    \* widget state of the target-language selectbox
    tmp_files,                      \* staged temporary files that exist on disk
    transcript_language,            \* language code of the transcribe_audio call that
                                    \* produced the stored transcription (history)
    target_options,                 \* the options of the target-language selectbox whose
                                    \* state translation_language_select is
    \* what the last run of main() did:
    rendered,                       \* the widgets and result areas it rendered
    pressed,                        \* the st.button call that returned True
    calls,                          \* its calls of transcribe_audio / translate_text
    errors,                         \* the st.error messages it showed
    script_end                      \* how it ended

vars == <<GROQ_API_KEY, session_state, transcription_language_select, uploaded_file,
          translation_language_select, tmp_files, transcript_language,
          rendered, target_options, pressed, calls, errors, script_end>>

\* ------------------------------------------------------------ pure helpers
RECURSIVE lstrip(_)
lstrip(s) == IF s # <<>> /\ Head(s) \in Whitespace THEN lstrip(Tail(s)) ELSE s

RECURSIVE rstrip(_)
rstrip(s) ==
    IF s # <<>> /\ s[Len(s)] \in Whitespace
    THEN rstrip(SubSeq(s, 1, Len(s) - 1))
    ELSE s

\* str.strip()
strip(s) == rstrip(lstrip(s))

\* [x for x in seq if keep(x)]
RECURSIVE Filter(_, _)
Filter(seq, drop) ==
    IF seq = <<>> THEN <<>>
    ELSE IF Head(seq) = drop THEN Filter(Tail(seq), drop)
    ELSE <<Head(seq)>> \o Filter(Tail(seq), drop)

\* st.selectbox: returns one of its options.  It is the widget's stored value
\* when the last run rendered the widget with the same options.  When the
\* options changed, Streamlit (by version) either keeps a stored value that is
\* still offered or resets the widget to the first option: resets is that
\* choice.  A widget without state returns the first option.
selectbox(options, state, previous_options, resets) ==
    IF state \in Range(options) /\ (previous_options = options \/ ~resets)
    THEN state
    ELSE options[1]

\* ------------------------------------------------------------ configure_apis
ConfigureApisNeverStops(api_key) == "configured"

\* "stopped" when st.stop() ends the run, "configured" when the clients are returned.
configure_apis(api_key) ==
    IF ~api_key THEN "stopped" ELSE "configured"

\* ---------------------------------------------------------- transcribe_audio
TranscribeFaults ==
    {"none", "NamedTemporaryFile", "write", "open", "create",
     "unlink", "open+unlink", "create+unlink"}

\* fault names the statements that raise: creating the temporary file, reading
\* or writing the uploaded bytes, re-opening the file, the remote call, and
\* os.unlink in the finally clause (alone, or after open or the remote call
\* raised), which then leaves the file where it is.
\* staged: the temporary files the call leaves on disk.
\* requests: the remote requests made, each with its language.
transcribe_audio(fault, text, language) ==
    IF fault = "NamedTemporaryFile"
    THEN [raised |-> TRUE, result |-> None, staged |-> 0, requests |-> <<>>]
    ELSE IF fault = "write"
    THEN \* the with block closes the file; delete=False keeps it
         [raised |-> TRUE, result |-> None, staged |-> 1, requests |-> <<>>]
    ELSE IF fault = "open"
    THEN \* inside try: finally unlinks
         [raised |-> TRUE, result |-> None, staged |-> 0, requests |-> <<>>]
    ELSE IF fault = "open+unlink"
    THEN \* the exception of os.unlink replaces the one re-raised by except
         [raised |-> TRUE, result |-> None, staged |-> 1, requests |-> <<>>]
    ELSE IF fault = "create"
    THEN [raised |-> TRUE, result |-> None, staged |-> 0, requests |-> <<language>>]
    ELSE IF fault = "create+unlink"
    THEN [raised |-> TRUE, result |-> None, staged |-> 1, requests |-> <<language>>]
    ELSE IF fault = "unlink"
    THEN \* the remote call returned; finally raises before line 94 returns
         [raised |-> TRUE, result |-> None, staged |-> 1, requests |-> <<language>>]
    ELSE [raised |-> FALSE, result |-> PyStr(text), staged |-> 0, requests |-> <<language>>]

\* ------------------------------------------------------------ translate_text
TranslateFaults == {"none", "generate_content"}

translate_text(fault, response, text, transcription_language, target_language) ==
    IF fault = "generate_content"
    THEN [raised |-> TRUE, result |-> None]
    ELSE [raised |-> FALSE, result |-> PyStr(strip(response))]

\* ------------------------------------------------------------------- main()
\* Lines 133-135: keys not yet in st.session_state are set to None.
init_session_state(ss) ==
    [k \in SessionKeys |-> IF k \in DOMAIN ss THEN ss[k] ELSE None]

TargetLanguagesUnfiltered(ss) == LANGUAGES_keys

\* Line 193.
target_languages(ss) ==
    IF ss["transcription_language"] = None THEN LANGUAGES_keys
    ELSE Filter(LANGUAGES_keys, ss["transcription_language"].value)

\* An entry of the call log.
Call(fn, text, language, target, r) ==
    [fn |-> fn, text |-> text, language |-> language, target |-> target,
     raised |-> r.raised, result |-> r.result]

TranscriptionTryStoresOnFailure(ss, language, t) ==
    [ss |-> [ss EXCEPT !["transcription"] = t.result],
     calls |-> <<Call("transcribe_audio", None, language, NoValue, t)>>,
     errors |-> IF t.raised THEN {"An error occurred during transcription"} ELSE {},
     staged |-> t.staged, caught |-> TRUE]

TranscriptionTryUncaught(ss, language, t) ==
    [ss |-> IF t.raised THEN ss ELSE [ss EXCEPT !["transcription"] = t.result],
     calls |-> <<Call("transcribe_audio", None, language, NoValue, t)>>,
     errors |-> {}, staged |-> t.staged, caught |-> ~t.raised]

\* Lines 163-181: the try/except around transcribe_audio; t is its outcome.
transcription_try(ss, language, t) ==
    IF t.raised
    THEN [ss |-> ss, calls |-> <<Call("transcribe_audio", None, language, NoValue, t)>>,
          errors |-> {"An error occurred during transcription"},
          staged |-> t.staged, caught |-> TRUE]
    ELSE [ss |-> [ss EXCEPT !["transcription"] = t.result],
          calls |-> <<Call("transcribe_audio", None, language, NoValue, t)>>,
          errors |-> {}, staged |-> t.staged, caught |-> TRUE]

\* Lines 162-181: the Start Transcription button and its try/except.
\* Gives the session state after the block, the call made, the error shown.
transcription_block(ss, button, in, transcription_language) ==
    IF button # "Start Transcription"
    THEN [ss |-> ss, calls |-> <<>>, errors |-> {}, staged |-> 0, caught |-> TRUE]
    ELSE transcription_try(ss, LANGUAGES[transcription_language],
             transcribe_audio(in.tr_fault, in.tr_text, LANGUAGES[transcription_language]))

TranslationTryStoresOnFailure(ss, text, transcription_language, target_language, t) ==
    [ss |-> [ss EXCEPT !["translation"] = t.result],
     calls |-> <<Call("translate_text", text, transcription_language, target_language, t)>>,
     errors |-> IF t.raised THEN {"An error occurred during translation"} ELSE {},
     caught |-> TRUE]

\* Lines 211-218: the try/except around translate_text; t is its outcome.
translation_try(ss, text, transcription_language, target_language, t) ==
    IF t.raised
    THEN [ss |-> ss,
          calls |-> <<Call("translate_text", text, transcription_language,
                           target_language, t)>>,
          errors |-> {"An error occurred during translation"}, caught |-> TRUE]
    ELSE [ss |-> [ss EXCEPT !["translation"] = t.result],
          calls |-> <<Call("translate_text", text, transcription_language,
                           target_language, t)>>,
          errors |-> {}, caught |-> TRUE]

TranslationBlockSwapsLanguages(ss, button, in, transcription_language, target_language) ==
    IF button # "translate_button"
    THEN [ss |-> ss, calls |-> <<>>, errors |-> {}, caught |-> TRUE]
    ELSE translation_try(ss, ss["transcription"], target_language, transcription_language,
             translate_text(in.tl_fault, in.tl_text, ss["transcription"],
                            target_language, transcription_language))

\* Lines 210-218: the Translate button and its try/except.
translation_block(ss, button, in, transcription_language, target_language) ==
    IF button # "translate_button"
    THEN [ss |-> ss, calls |-> <<>>, errors |-> {}, caught |-> TRUE]
    ELSE translation_try(ss, ss["transcription"], transcription_language, target_language,
             translate_text(in.tl_fault, in.tl_text, ss["transcription"],
                            transcription_language, target_language))

ShowsTranscriptionWhenSet(ss) == ss["transcription"] # None

\* Line 184: whether the transcription result and the translation section show.
shows_transcription(ss) == Truthy(ss["transcription"])

\* Line 221.
shows_translation(ss) == Truthy(ss["translation"])

\* The outcome of one run.
Outcome(ss, sel, upl, tgt, shown, options, button, log, errs, staged, end) ==
    [session_state |-> ss, transcription_language_select |-> sel, uploaded_file |-> upl,
     translation_language_select |-> tgt, rendered |-> shown, target_options |-> options,
     pressed |-> IF button \in shown THEN button ELSE NoValue, calls |-> log, errors |-> errs, staged |-> staged,
     script_end |-> end]

\* Lines 220-225: the translation result and its copy button; b1 and b2 are
\* the outcomes of the two button blocks of the run.
translation_result(in, transcription_language, target_language, seen, options, b1, b2) ==
    IF ~b2.caught
    THEN Outcome(b2.ss, transcription_language, in.uploaded_file, target_language, seen,
                 options, in.button, b1.calls \o b2.calls, b1.errors \cup b2.errors,
                 b1.staged, "exception")
    ELSE IF ~shows_translation(b2.ss)
    THEN Outcome(b2.ss, transcription_language, in.uploaded_file, target_language, seen,
                 options, in.button, b1.calls \o b2.calls, b1.errors \cup b2.errors,
                 b1.staged, "completed")
    ELSE Outcome(b2.ss, transcription_language, in.uploaded_file, target_language,
                 seen \cup {"Translation", "copy_translation"}, options, in.button,
                 b1.calls \o b2.calls, b1.errors \cup b2.errors, b1.staged,
                 IF in.button = "copy_translation" /\ in.clipboard_fault
                 THEN "exception" ELSE "completed")

\* Lines 208-218: the target language is stored, then the Translate button acts.
translation_trigger(in, transcription_language, target_language, seen, options, b1) ==
    translation_result(in, transcription_language, target_language, seen, options, b1,
        translation_block([b1.ss EXCEPT !["target_language"] = PyStr(target_language)],
                          in.button, in, transcription_language, target_language))

\* Lines 198-206: the Translate button and the target-language selectbox.
translation_controls(in, transcription_language, seen, options, b1) ==
    translation_trigger(in, transcription_language,
        selectbox(options, in.translation_language_select, in.previous_options,
                  in.widget_resets),
        seen \cup {"translate_button", "translation_language_select"}, options, b1)

\* Lines 183-225: what follows the Start Transcription block.
transcription_result(in, transcription_language, seen, b1) ==
    IF ~b1.caught
    THEN Outcome(b1.ss, transcription_language, in.uploaded_file,
                 in.translation_language_select, seen, in.previous_options,
                 in.button, b1.calls, b1.errors, b1.staged, "exception")
    ELSE IF ~shows_transcription(b1.ss)
    THEN Outcome(b1.ss, transcription_language, in.uploaded_file, NoValue, seen,
                 <<>>, in.button, b1.calls, b1.errors, b1.staged, "completed")
    ELSE IF in.button = "copy_transcription" /\ in.clipboard_fault
    THEN \* pyperclip.copy raises at line 188: the run ends there
         Outcome(b1.ss, transcription_language, in.uploaded_file,
                 in.translation_language_select,
                 seen \cup {"Transcription", "copy_transcription"}, in.previous_options,
                 in.button, b1.calls, b1.errors, b1.staged, "exception")
    ELSE translation_controls(in, transcription_language,
                              seen \cup {"Transcription", "copy_transcription"},
                              target_languages(b1.ss), b1)

UploadSectionClearsResults(ss, in, transcription_language, seen) ==
    IF in.uploaded_file = NoFile
    THEN Outcome([ss EXCEPT !["transcription"] = None, !["translation"] = None],
                 transcription_language, NoFile, NoValue, seen, <<>>, NoValue,
                 <<>>, {}, 0, "completed")
    ELSE transcription_result(in, transcription_language, seen \cup {"Start Transcription"},
                              transcription_block(ss, in.button, in, transcription_language))

\* Lines 147-225: the source language is stored, then the upload decides.
upload_section(ss, in, transcription_language, seen) ==
    IF in.uploaded_file = NoFile
    THEN Outcome(ss, transcription_language, NoFile, NoValue, seen, <<>>, NoValue,
                 <<>>, {}, 0, "completed")
    ELSE transcription_result(in, transcription_language, seen \cup {"Start Transcription"},
                              transcription_block(ss, in.button, in, transcription_language))

\* Lines 142-147.
language_selection(ss, in, transcription_language) ==
    upload_section([ss EXCEPT !["transcription_language"] = PyStr(transcription_language)],
                   in, transcription_language,
                   {"transcription_language_select", "file_uploader"})

\* Lines 125-225.  in: the inputs of the run (the credential, the widget
\* state, the button pressed, the outcomes of the services it calls).
main(ss_before, in) ==
    IF configure_apis(in.GROQ_API_KEY) = "stopped"
    THEN Outcome(ss_before, in.transcription_language_select, in.uploaded_file,
                 in.translation_language_select, {}, in.previous_options, NoValue, <<>>,
                 {"GROQ_API_KEY environment variable not found"}, 0, "stopped")
    ELSE language_selection(init_session_state(ss_before), in,
                            selectbox(LANGUAGES_keys, in.transcription_language_select,
                                      LANGUAGES_keys, FALSE))

\* ------------------------------------------------------------------ actions
Init ==
    /\ GROQ_API_KEY \in BOOLEAN
    /\ session_state = [k \in {} |-> None]
    /\ transcription_language_select = NoValue
    /\ uploaded_file = NoFile
    /\ translation_language_select = NoValue
    /\ tmp_files = 0
    /\ transcript_language = NoValue
    /\ rendered = {}
    /\ target_options = <<>>
    /\ pressed = NoValue
    /\ calls = <<>>
    /\ errors = {}
    /\ script_end = "not run"

\* The inputs of a run in which no button is pressed and no service is called.
Input(key, sel, upl, tgt, resets, button) ==
    [GROQ_API_KEY |-> key, transcription_language_select |-> sel, uploaded_file |-> upl,
     translation_language_select |-> tgt, previous_options |-> target_options,
     widget_resets |-> resets, button |-> button,
     tr_fault |-> "none", tr_text |-> <<>>, tl_fault |-> "none", tl_text |-> <<>>,
     clipboard_fault |-> FALSE]

\* The state after a run whose outcome is out.
Finish(out, key) ==
    /\ tmp_files + out.staged <= MaxTmpFiles
    /\ GROQ_API_KEY' = key
    /\ session_state' = out.session_state
    /\ transcription_language_select' = out.transcription_language_select
    /\ uploaded_file' = out.uploaded_file
    /\ translation_language_select' = out.translation_language_select
    /\ tmp_files' = tmp_files + out.staged
    /\ transcript_language' =
           IF \E i \in 1..Len(out.calls) :
                  out.calls[i].fn = "transcribe_audio" /\ ~out.calls[i].raised
           THEN out.calls[1].language
           ELSE transcript_language
    /\ rendered' = out.rendered
    /\ target_options' = out.target_options
    /\ pressed' = out.pressed
    /\ calls' = out.calls
    /\ errors' = out.errors
    /\ script_end' = out.script_end

\* One run of the script on the inputs in.
Run(in) == Finish(main(session_state, in), in.GROQ_API_KEY)

\* The page is loaded or rerun without any interaction.
Rerun ==
    \E key \in BOOLEAN, resets \in BOOLEAN :
        Run(Input(key, transcription_language_select, uploaded_file,
                  translation_language_select, resets, NoValue))

\* The user picks another source language.
SelectTranscriptionLanguage ==
    /\ "transcription_language_select" \in rendered
    /\ \E key \in BOOLEAN, resets \in BOOLEAN,
          lang \in PickedLanguages \ {transcription_language_select} :
        Run(Input(key, lang, uploaded_file, translation_language_select, resets, NoValue))

\* The user uploads a file, or replaces the uploaded one.
UploadFile ==
    /\ "file_uploader" \in rendered
    /\ \E key \in BOOLEAN, resets \in BOOLEAN, f \in Files \ {uploaded_file} :
        Run(Input(key, transcription_language_select, f,
                  translation_language_select, resets, NoValue))

\* The user removes the uploaded file.
RemoveFile ==
    /\ "file_uploader" \in rendered
    /\ uploaded_file # NoFile
    /\ \E key \in BOOLEAN, resets \in BOOLEAN :
        Run(Input(key, transcription_language_select, NoFile,
                  translation_language_select, resets, NoValue))

\* The user presses Start Transcription.
PressStartTranscription ==
    /\ "Start Transcription" \in rendered
    /\ \E key \in BOOLEAN, resets \in BOOLEAN, fault \in TranscribeFaults, text \in Texts :
        /\ fault # "none" => text = <<>>
        /\ Run([Input(key, transcription_language_select, uploaded_file,
                      translation_language_select, resets, "Start Transcription")
                EXCEPT !.tr_fault = fault, !.tr_text = text])

\* The user presses Copy Transcription.
PressCopyTranscription ==
    /\ "copy_transcription" \in rendered
    /\ \E key \in BOOLEAN, resets \in BOOLEAN, fault \in BOOLEAN :
        Run([Input(key, transcription_language_select, uploaded_file,
                   translation_language_select, resets, "copy_transcription")
             EXCEPT !.clipboard_fault = fault])

\* The user picks another target language among those offered.
SelectTargetLanguage ==
    /\ "translation_language_select" \in rendered
    /\ \E key \in BOOLEAN, resets \in BOOLEAN,
          lang \in (Range(target_options) \cap PickedLanguages) \ {translation_language_select} :
        Run(Input(key, transcription_language_select, uploaded_file, lang, resets, NoValue))

\* The user presses Translate.
PressTranslate ==
    /\ "translate_button" \in rendered
    /\ \E key \in BOOLEAN, resets \in BOOLEAN, fault \in TranslateFaults, text \in Texts :
        /\ fault # "none" => text = <<>>
        /\ Run([Input(key, transcription_language_select, uploaded_file,
                      translation_language_select, resets, "translate_button")
                EXCEPT !.tl_fault = fault, !.tl_text = text])

\* The user presses Copy Translation.
PressCopyTranslation ==
    /\ "copy_translation" \in rendered
    /\ \E key \in BOOLEAN, resets \in BOOLEAN, fault \in BOOLEAN :
        Run([Input(key, transcription_language_select, uploaded_file,
                   translation_language_select, resets, "copy_translation")
             EXCEPT !.clipboard_fault = fault])

Next ==
    \/ Rerun
    \/ SelectTranscriptionLanguage
    \/ UploadFile
    \/ RemoveFile
    \/ PressStartTranscription
    \/ PressCopyTranscription
    \/ SelectTargetLanguage
    \/ PressTranslate
    \/ PressCopyTranslation

Spec == Init /\ [][Next]_vars

\* ------------------------------------------------------------------- claims
\* The value a key of st.session_state reads as: a key not set yet reads as
\* None, the value main() initialises it to.
Stored(ss, k) == IF k \in DOMAIN ss THEN ss[k] ELSE None

\* The last run called fn and the call raised / returned.
Raised(log, fn) == \E i \in 1..Len(log) : log[i].fn = fn /\ log[i].raised
Returned(log, fn) == \E i \in 1..Len(log) : log[i].fn = fn /\ ~log[i].raised

\* C1: a run in which Start Transcription is pressed and transcribe_audio
\* raises ends with st.session_state.transcription equal to its value before
\* the run, which is None while no transcription has succeeded yet.
C1_FailedTranscriptionKeepsTranscript ==
    [][(pressed' = "Start Transcription" /\ Raised(calls', "transcribe_audio")) =>
           /\ "transcription" \in DOMAIN session_state
           /\ session_state'["transcription"] = session_state["transcription"]
           /\ (transcript_language = NoValue => session_state'["transcription"] = None)]_vars

C1_Witness ==
    /\ pressed = "Start Transcription"
    /\ Raised(calls, "transcribe_audio")
    /\ Truthy(Stored(session_state, "transcription"))

\* C2: a run in which Translate is pressed and translate_text raises ends with
\* st.session_state.translation and st.session_state.transcription equal to
\* their values before the run.
C2_FailedTranslationKeepsResults ==
    [][(pressed' = "translate_button" /\ Raised(calls', "translate_text")) =>
           /\ {"translation", "transcription"} \subseteq DOMAIN session_state
           /\ session_state'["translation"] = session_state["translation"]
           /\ session_state'["transcription"] = session_state["transcription"]]_vars

C2_Witness ==
    /\ pressed = "translate_button"
    /\ Raised(calls, "translate_text")
    /\ Truthy(Stored(session_state, "translation"))

\* C3: no temporary file staged by transcribe_audio exists once it has
\* returned or raised, so none exists between two runs.
C3_NoStagedFileRemains == tmp_files = 0

\* C4: a run that shows the translation section offers as targets exactly the
\* languages other than the source language selected in that run, and every
\* translate_text call gets a target that is offered and is not its source.
C4_TargetExcludesSource ==
    /\ "translation_language_select" \in rendered =>
           /\ Range(target_options) = DOMAIN LANGUAGES \ {transcription_language_select}
           /\ Len(target_options) = Cardinality(DOMAIN LANGUAGES) - 1
           /\ translation_language_select \in Range(target_options)
    /\ \A i \in 1..Len(calls) :
           calls[i].fn = "translate_text" =>
               /\ calls[i].target # calls[i].language
               /\ calls[i].language = transcription_language_select
               /\ calls[i].target \in Range(target_options)

C4_Witness ==
    /\ calls # <<>>
    /\ calls[1].fn = "translate_text"
    /\ calls[1].language # LANGUAGES_keys[1]
    /\ calls[1].target = LANGUAGES_keys[1]

\* C5: the stored transcription changes only in a run in which Start
\* Transcription is pressed, the stored translation only in a run in which
\* Translate is pressed, and a run with neither pressed calls no service and
\* leaves both as they were.
C5_OnlyButtonsAdvance ==
    [][/\ Stored(session_state', "transcription") # Stored(session_state, "transcription")
              => pressed' = "Start Transcription"
       /\ Stored(session_state', "translation") # Stored(session_state, "translation")
              => pressed' = "translate_button"
       /\ pressed' \notin {"Start Transcription", "translate_button"} =>
              /\ calls' = <<>>
              /\ Stored(session_state', "transcription") = Stored(session_state, "transcription")
              /\ Stored(session_state', "translation") = Stored(session_state, "translation")]_vars

C5_Witness ==
    /\ script_end = "completed"
    /\ pressed = NoValue
    /\ uploaded_file = NoFile
    /\ Truthy(Stored(session_state, "transcription"))
    /\ Truthy(Stored(session_state, "translation"))

\* C6 as stated: a run in which transcribe_audio or translate_text raises shows
\* an error, ends normally with the controls rendered, and displays every
\* stored transcript and every stored translation.
C6_FailureStillDisplaysEveryStoredResult ==
    (Raised(calls, "transcribe_audio") \/ Raised(calls, "translate_text")) =>
        /\ errors # {}
        /\ script_end = "completed"
        /\ {"transcription_language_select", "file_uploader", "Start Transcription"}
               \subseteq rendered
        /\ Truthy(session_state["transcription"]) => "Transcription" \in rendered
        /\ Truthy(session_state["translation"]) => "Translation" \in rendered

\* C6 amended: a run in which transcribe_audio or translate_text raises shows
\* the error of the failed step, ends normally with the controls rendered, and
\* displays the stored transcript when it is non-empty and the stored
\* translation when it and the stored transcript are both non-empty.
C6_FailureIsCaughtAndShown ==
    (Raised(calls, "transcribe_audio") \/ Raised(calls, "translate_text")) =>
        /\ Raised(calls, "transcribe_audio")
               => "An error occurred during transcription" \in errors
        /\ Raised(calls, "translate_text")
               => "An error occurred during translation" \in errors
        /\ script_end = "completed"
        /\ {"transcription_language_select", "file_uploader", "Start Transcription"}
               \subseteq rendered
        /\ Truthy(session_state["transcription"]) =>
               {"Transcription", "copy_transcription", "translate_button"} \subseteq rendered
        /\ (Truthy(session_state["transcription"]) /\ Truthy(session_state["translation"]))
               => "Translation" \in rendered

C6_Witness ==
    /\ Raised(calls, "transcribe_audio")
    /\ errors # {}
    /\ "Transcription" \in rendered
    /\ "Translation" \in rendered

\* C7: a run that finds GROQ_API_KEY absent shows the error and stops in
\* configure_apis: it renders no widget, calls no service and leaves
\* st.session_state as it found it, keys not yet set staying unset.
C7_MissingKeyStops ==
    [][~GROQ_API_KEY' =>
           /\ script_end' = "stopped"
           /\ errors' = {"GROQ_API_KEY environment variable not found"}
           /\ rendered' = {}
           /\ pressed' = NoValue
           /\ calls' = <<>>
           /\ session_state' = session_state]_vars

C7_Witness ==
    /\ ~GROQ_API_KEY
    /\ script_end = "stopped"
    /\ Truthy(Stored(session_state, "transcription"))
    /\ "target_language" \in DOMAIN session_state

\* C8 as stated: the stored translation is only ever written by a
\* translate_text call that returned, made with the transcription and the
\* target language that st.session_state held when Translate was pressed; a
\* later successful transcription replaces only the stored transcription, and
\* a later change of target language leaves the stored translation and the
\* stored transcription as they were.
C8_LaterTranscriptionReplacesOnlyItsField ==
    [][/\ \A i \in 1..Len(calls') :
              (calls'[i].fn = "translate_text") =>
                  /\ pressed' = "translate_button"
                  /\ calls'[i].text = Stored(session_state, "transcription")
                  /\ PyStr(calls'[i].target) = Stored(session_state, "target_language")
                  /\ ~calls'[i].raised => session_state'["translation"] = calls'[i].result
       /\ Stored(session_state', "translation") # Stored(session_state, "translation")
              => Returned(calls', "translate_text")
       /\ (Returned(calls', "transcribe_audio") /\ Stored(session_state, "translation") # None)
              => \A k \in SessionKeys \ {"transcription"} :
                     Stored(session_state', k) = Stored(session_state, k)
       /\ (/\ ~Returned(calls', "translate_text")
           /\ ~Returned(calls', "transcribe_audio")
           /\ Stored(session_state', "target_language") # Stored(session_state, "target_language"))
              => /\ Stored(session_state', "translation") = Stored(session_state, "translation")
                 /\ Stored(session_state', "transcription")
                        = Stored(session_state, "transcription")]_vars

\* C8 amended: the stored translation is only ever written by a
\* translate_text call that returned, made with the transcription and the
\* target language that st.session_state held when Translate was pressed; a
\* successful transcription leaves the stored translation and the stored
\* source language as they were, and changes the stored target language only
\* when the transcript it replaces was None or empty, to the first target
\* offered; a change of target language leaves the stored translation and
\* the stored transcription as they were.
C8_TranslationProvenance ==
    [][/\ \A i \in 1..Len(calls') :
              (calls'[i].fn = "translate_text") =>
                  /\ pressed' = "translate_button"
                  /\ calls'[i].text = Stored(session_state, "transcription")
                  /\ PyStr(calls'[i].target) = Stored(session_state, "target_language")
                  /\ ~calls'[i].raised => session_state'["translation"] = calls'[i].result
       /\ Stored(session_state', "translation") # Stored(session_state, "translation")
              => Returned(calls', "translate_text")
       /\ Returned(calls', "transcribe_audio") =>
              /\ Stored(session_state', "translation") = Stored(session_state, "translation")
              /\ Stored(session_state', "transcription_language")
                     = Stored(session_state, "transcription_language")
              /\ Stored(session_state', "target_language") # Stored(session_state, "target_language")
                     => /\ ~Truthy(Stored(session_state, "transcription"))
                        /\ Truthy(session_state'["transcription"])
                        /\ session_state'["target_language"] = PyStr(target_options'[1])
       /\ (/\ ~Returned(calls', "translate_text")
           /\ ~Returned(calls', "transcribe_audio")
           /\ Stored(session_state', "target_language") # Stored(session_state, "target_language"))
              => /\ Stored(session_state', "translation") = Stored(session_state, "translation")
                 /\ Stored(session_state', "transcription")
                        = Stored(session_state, "transcription")]_vars

C8_Witness ==
    /\ Returned(calls, "transcribe_audio")
    /\ Truthy(Stored(session_state, "translation"))
    /\ Truthy(Stored(session_state, "transcription"))
    /\ session_state["translation"].value # session_state["transcription"].value
    /\ session_state["target_language"] = PyStr(target_options[1])
    /\ translation_language_select # LANGUAGES_keys[2]

\* C9: a translation is stored only when a transcription is stored;
\* translate_text is called only in a run with a file uploaded and a non-empty
\* stored transcription; a stored transcription or translation never goes
\* back to None.
C9_TranslationNeedsTranscription ==
    /\ [](/\ Stored(session_state, "translation") # None
                 => Stored(session_state, "transcription") # None
          /\ \A i \in 1..Len(calls) :
                 calls[i].fn = "translate_text" =>
                     /\ uploaded_file # NoFile
                     /\ Truthy(calls[i].text)
                     /\ calls[i].text = session_state["transcription"])
    /\ [][/\ Stored(session_state, "transcription") # None
                 => Stored(session_state', "transcription") # None
          /\ Stored(session_state, "translation") # None
                 => Stored(session_state', "translation") # None]_vars

C9_Witness ==
    /\ Returned(calls, "translate_text")
    /\ uploaded_file # NoFile
    /\ Stored(session_state, "translation") # None
    /\ Stored(session_state, "transcription") # None

\* C10: every translate_text call is given as source language the language
\* that was given to the transcribe_audio call which produced the transcript
\* it translates.
C10_TranslateSourceIsTranscriptLanguage ==
    \A i \in 1..Len(calls) :
        calls[i].fn = "translate_text" => LANGUAGES[calls[i].language] = transcript_language

====
